---- MODULE Spec2Model ----
(***************************************************************************)
(* Model of the matching and decision engine of the job automation system  *)
(* (src/src/modules/matcher.py, class JobMatcher) and of the way it is     *)
(* called.  Texts are strings; TLC evaluates Len, \o and SubSeq on them,   *)
(* so substring tests and lower-casing are computed character by           *)
(* character, as Python's `in` and str.lower() do on ASCII text.           *)
(***************************************************************************)
EXTENDS Integers, Sequences, FiniteSets, TLC

VARIABLES
    config,     \* the parsed config/config.json the engine is built from
    matcher,    \* the JobMatcher instance (NoMatcher before construction)
    result,     \* what the calculate_score call returned, with its locals
    probe,      \* the inputs a step of calculate_score is applied to alone
    calls,      \* the calculate_score calls of the callers sharing the engine
    automation, \* the JobAutomation object: its counters, scrapers and run
    sheet,      \* the Google sheet: connected or not, and its rows
    last_call,  \* the last call of _process_job
    trace       \* what the run did, in order

\* the variables of a run of main.py
runVars == <<automation, sheet, last_call, trace>>

vars == <<config, matcher, result, probe, calls, automation, sheet, last_call, trace>>

(***************************************************************************)
(* Strings                                                                 *)
(***************************************************************************)

UpperLetters == "ABCDEFGHIJKLMNOPQRSTUVWXYZ"

LowerLetters == "abcdefghijklmnopqrstuvwxyz"

\* the lower-case letter of every upper-case ASCII letter
LowerOf ==
    [c \in { SubSeq(UpperLetters, i, i) : i \in 1..Len(UpperLetters) } |->
        LET i == CHOOSE k \in 1..Len(UpperLetters) : SubSeq(UpperLetters, k, k) = c
        IN  SubSeq(LowerLetters, i, i)]

\* str.lower() on one character: an upper-case ASCII letter becomes its
\* lower-case letter, every other character stays.
LowerChar(c) == IF c \in DOMAIN LowerOf THEN LowerOf[c] ELSE c

RECURSIVE Lower(_)
\* str.lower(): every character lower-cased, in place (the text is halved
\* until single characters are left)
Lower(s) ==
    IF Len(s) = 0 THEN ""
    ELSE IF Len(s) = 1 THEN LowerChar(s)
    ELSE Lower(SubSeq(s, 1, Len(s) \div 2)) \o
         Lower(SubSeq(s, Len(s) \div 2 + 1, Len(s)))

\* Python's `sub in text` on strings: sub occurs at some position of text
\* (the empty string occurs in every text).
Contains(sub, text) ==
    LET n == Len(sub)
    IN  \/ n = 0
        \/ \E i \in 1..(Len(text) - n + 1) : SubSeq(text, i, i + n - 1) = sub

\* dict.get(key, default)
Get(d, key, default) == IF key \in DOMAIN d THEN d[key] ELSE default

Min(a, b) == IF a <= b THEN a ELSE b

Max(a, b) == IF a >= b THEN a ELSE b

Range(f) == { f[i] : i \in DOMAIN f }

(***************************************************************************)
(* JobMatcher: the vocabulary set up by __init__                           *)
(***************************************************************************)

\* self.skill_synonyms: canonical skill -> synonym phrases, in dict order
skill_synonyms ==
    << [name |-> "sql",
        phrases |-> <<"sql", "sqlite", "mysql", "t-sql", "postgresql", "oracle", "database", "queries", "query">>],
       [name |-> "excel",
        phrases |-> <<"excel", "ms excel", "microsoft excel", "pivot tables", "vlookup", "data validation", "spreadsheet">>],
       [name |-> "tableau",
        phrases |-> <<"tableau", "tableau desktop", "tableau server", "tableau dashboard", "visualization", "viz">>],
       [name |-> "power bi",
        phrases |-> <<"power bi", "powerbi", "power-bi", "pbi", "msbi", "microsoft bi">>],
       [name |-> "r",
        phrases |-> <<"r", "r programming", "rstudio", "r, ", "dplyr", "ggplot2", "tidyverse", "shiny">>],
       [name |-> "python",
        phrases |-> <<"python", "python3", "pandas", "numpy", "scipy", "matplotlib", "seaborn">>],
       [name |-> "data analysis",
        phrases |-> <<"data analysis", "data analytics", "analytics", "analyze data", "data analyst">>],
       [name |-> "statistical analysis",
        phrases |-> <<"statistical", "statistics", "stats", "anova", "regression", "hypothesis testing">>],
       [name |-> "data cleaning",
        phrases |-> <<"data cleaning", "data preprocessing", "preprocessing", "cleaning", "wrangling">>],
       [name |-> "eda",
        phrases |-> <<"eda", "exploratory data analysis", "exploratory">>],
       [name |-> "data visualization",
        phrases |-> <<"data visualization", "visualization", "visualize", "charts", "graphs", "dashboards">>],
       [name |-> "database",
        phrases |-> <<"database", "db", "sql", "queries", "data modeling", "schema">>],
       [name |-> "reporting",
        phrases |-> <<"reporting", "reports", "mis", "mis reporting", "kpi", "dashboard">>],
       [name |-> "machine learning",
        phrases |-> <<"machine learning", "ml", "predictive", "predictive analytics", "modeling">>],
       [name |-> "customer analysis",
        phrases |-> <<"customer", "customer segmentation", "behavioral", "customer insights", "churn">>],
       [name |-> "bi",
        phrases |-> <<"bi", "business intelligence", "intelligence", "analytics">>],
       [name |-> "operations",
        phrases |-> <<"operations", "operational", "supply chain">>],
       [name |-> "marketing",
        phrases |-> <<"marketing", "market", "customer journey", "segmentation">>],
       [name |-> "risk",
        phrases |-> <<"risk", "credit risk", "risk assessment", "fraud">>],
       [name |-> "git",
        phrases |-> <<"git", "version control", "github", "bitbucket">>],
       [name |-> "office",
        phrases |-> <<"microsoft office", "ms office", "google sheets", "sheets", "word", "powerpoint">>] >>

\* self.skill_groups: group name -> member skills, in dict order
skill_groups ==
    << [name |-> "core_data",
        phrases |-> <<"sql", "python", "r", "excel">>],
       [name |-> "visualization",
        phrases |-> <<"tableau", "power bi", "data visualization">>],
       [name |-> "analysis",
        phrases |-> <<"data analysis", "statistical analysis", "predictive analytics">>],
       [name |-> "tools",
        phrases |-> <<"git", "microsoft office", "google sheets">>] >>

\* title_keywords of calculate_score: title phrase -> base score
title_keywords ==
    << [phrase |-> "junior data analyst", score |-> 100],
       [phrase |-> "jr. data analyst", score |-> 100],
       [phrase |-> "jr data analyst", score |-> 100],
       [phrase |-> "data analyst", score |-> 95],
       [phrase |-> "data analytics", score |-> 90],
       [phrase |-> "mis analyst", score |-> 95],
       [phrase |-> "mis executive", score |-> 90],
       [phrase |-> "management information system", score |-> 90],
       [phrase |-> "business analyst", score |-> 85],
       [phrase |-> "junior business analyst", score |-> 90],
       [phrase |-> "business analytics", score |-> 80],
       [phrase |-> "financial data analyst", score |-> 90],
       [phrase |-> "risk analyst", score |-> 85],
       [phrase |-> "retail analytics", score |-> 85],
       [phrase |-> "ecommerce analytics", score |-> 85],
       [phrase |-> "telecom analytics", score |-> 85],
       [phrase |-> "customer churn analyst", score |-> 85],
       [phrase |-> "aviation data analyst", score |-> 90],
       [phrase |-> "automotive analytics", score |-> 90],
       [phrase |-> "tableau developer", score |-> 90],
       [phrase |-> "power bi developer", score |-> 90],
       [phrase |-> "bi developer", score |-> 90],
       [phrase |-> "etl developer", score |-> 85],
       [phrase |-> "data visualization specialist", score |-> 85],
       [phrase |-> "operations analyst", score |-> 80],
       [phrase |-> "marketing analytics", score |-> 80],
       [phrase |-> "product analyst", score |-> 80],
       [phrase |-> "credit risk analyst", score |-> 80],
       [phrase |-> "customer insights", score |-> 80],
       [phrase |-> "supply chain analytics", score |-> 80],
       [phrase |-> "insights analyst", score |-> 80],
       [phrase |-> "analytics engineer", score |-> 85],
       [phrase |-> "database administrator", score |-> 75],
       [phrase |-> "data scientist", score |-> 75] >>

\* the fixed list of the tool diversity bonus
core_tools == {"sql", "python", "r", "tableau", "power bi", "excel"}

NoMatcher == [constructed |-> FALSE]

NoResult == [called |-> FALSE]

\* Python's None, where a string may stand as well
None == "None"

\* JobMatcher.__init__: the profile read from the configuration.  The
\* skills become a set of lower-cased strings, the target roles and the
\* exclusion keywords lower-cased lists, and the thresholds are the
\* "matching" object as it stands.  Nothing is validated.
JobMatcher(cfg) ==
    [constructed  |-> TRUE,
     my_skills    |-> { Lower(s) : s \in Range(Get(cfg, "skills", <<>>)) },
     target_roles |-> [i \in DOMAIN Get(cfg, "target_roles", <<>>) |->
                          Lower(Get(cfg, "target_roles", <<>>)[i])],
     exclusions   |-> [i \in DOMAIN Get(cfg, "exclusion_keywords", <<>>) |->
                          Lower(Get(cfg, "exclusion_keywords", <<>>)[i])],
     thresholds   |-> Get(cfg, "matching", <<>>)]

\* the text should_exclude searches: f"{job_title} {job_description}".lower()
ExcludeText(job_title, job_description) ==
    Lower(job_title \o " " \o job_description)

\* should_exclude searching the title alone
should_exclude_title_only(m, job_title, job_description) ==
    LET text == Lower(job_title)
        hits == { i \in DOMAIN m.exclusions : Contains(m.exclusions[i], text) }
    IN  IF hits = {}
        THEN [excluded |-> FALSE, keyword |-> None]
        ELSE [excluded |-> TRUE,
              keyword  |-> m.exclusions[CHOOSE i \in hits : \A j \in hits : i <= j]]

\* should_exclude reporting the last keyword found instead of the first
should_exclude_last(m, job_title, job_description) ==
    LET text == ExcludeText(job_title, job_description)
        hits == { i \in DOMAIN m.exclusions : Contains(m.exclusions[i], text) }
    IN  IF hits = {}
        THEN [excluded |-> FALSE, keyword |-> None]
        ELSE [excluded |-> TRUE,
              keyword  |-> m.exclusions[CHOOSE i \in hits : \A j \in hits : i >= j]]

\* JobMatcher.should_exclude: the first exclusion keyword, in configured
\* order, that occurs in the text; (False, None) when none does.
should_exclude(m, job_title, job_description) ==
    LET text == ExcludeText(job_title, job_description)
        hits == { i \in DOMAIN m.exclusions : Contains(m.exclusions[i], text) }
    IN  IF hits = {}
        THEN [excluded |-> FALSE, keyword |-> None]
        ELSE [excluded |-> TRUE,
              keyword  |-> m.exclusions[CHOOSE i \in hits : \A j \in hits : i <= j]]

\* _extract_skills whose synonym pass stops at the first skill it finds
\* (the break leaving the outer loop)
extract_skills_first_hit(m, text) ==
    LET text_lower == Lower(text)
        direct   == { s \in m.my_skills : Contains(s, text_lower) }
        hit      == { k \in DOMAIN skill_synonyms :
                        \E j \in DOMAIN skill_synonyms[k].phrases :
                            Contains(skill_synonyms[k].phrases[j], text_lower) }
        synonyms == IF hit = {} THEN {}
                    ELSE { skill_synonyms[CHOOSE k \in hit : \A j \in hit : k <= j].name }
        groups   == { skill_groups[i].name : i \in
                        { k \in DOMAIN skill_groups :
                            \E j \in DOMAIN skill_groups[k].phrases :
                                Contains(skill_groups[k].phrases[j], text_lower) } }
    IN  direct \cup synonyms \cup groups

\* a lower-case letter
IsLetter(c) == Len(c) = 1 /\ Contains(c, LowerLetters)

\* sub occurs in text as whole words: no letter just before or just after it
ContainsWord(sub, text) ==
    LET n == Len(sub)
    IN  \/ n = 0
        \/ \E i \in 1..(Len(text) - n + 1) :
               /\ SubSeq(text, i, i + n - 1) = sub
               /\ i = 1 \/ ~IsLetter(SubSeq(text, i - 1, i - 1))
               /\ i + n - 1 = Len(text) \/ ~IsLetter(SubSeq(text, i + n, i + n))

\* _extract_skills matching whole words only
extract_skills_words(m, text) ==
    LET text_lower == Lower(text)
        direct   == { s \in m.my_skills : ContainsWord(s, text_lower) }
        synonyms == { skill_synonyms[i].name : i \in
                        { k \in DOMAIN skill_synonyms :
                            \E j \in DOMAIN skill_synonyms[k].phrases :
                                ContainsWord(skill_synonyms[k].phrases[j], text_lower) } }
        groups   == { skill_groups[i].name : i \in
                        { k \in DOMAIN skill_groups :
                            \E j \in DOMAIN skill_groups[k].phrases :
                                ContainsWord(skill_groups[k].phrases[j], text_lower) } }
    IN  direct \cup synonyms \cup groups

\* _extract_skills whose group pass adds the member found, not the group
extract_skills_members(m, text) ==
    LET text_lower == Lower(text)
        direct   == { s \in m.my_skills : Contains(s, text_lower) }
        synonyms == { skill_synonyms[i].name : i \in
                        { k \in DOMAIN skill_synonyms :
                            \E j \in DOMAIN skill_synonyms[k].phrases :
                                Contains(skill_synonyms[k].phrases[j], text_lower) } }
        members  == UNION { { skill_groups[k].phrases[j] :
                                j \in { i \in DOMAIN skill_groups[k].phrases :
                                          Contains(skill_groups[k].phrases[i],
                                                   text_lower) } } :
                            k \in DOMAIN skill_groups }
    IN  direct \cup synonyms \cup members

\* JobMatcher._extract_skills: the three passes over the lower-cased text.
extract_skills(m, text) ==
    LET text_lower == Lower(text)
        direct   == { s \in m.my_skills : Contains(s, text_lower) }
        synonyms == { skill_synonyms[i].name : i \in
                        { k \in DOMAIN skill_synonyms :
                            \E j \in DOMAIN skill_synonyms[k].phrases :
                                Contains(skill_synonyms[k].phrases[j], text_lower) } }
        groups   == { skill_groups[i].name : i \in
                        { k \in DOMAIN skill_groups :
                            \E j \in DOMAIN skill_groups[k].phrases :
                                Contains(skill_groups[k].phrases[j], text_lower) } }
    IN  direct \cup synonyms \cup groups

\* the title_keywords entries in the order the dict is iterated
TableOrder == [i \in DOMAIN title_keywords |-> i]

RECURSIVE TitleLoopLast(_, _, _)
\* the loop keeping the score of the last phrase found instead of the maximum
TitleLoopLast(order, job_title_lower, title_score) ==
    IF order = <<>> THEN title_score
    ELSE LET entry == title_keywords[Head(order)]
         IN  TitleLoopLast(Tail(order), job_title_lower,
                           IF Contains(entry.phrase, job_title_lower)
                           THEN entry.score ELSE title_score)

RECURSIVE TitleLoop(_, _, _)
\* calculate_score, step 2: the loop over title_keywords, taken in the given
\* order: title_score = max(title_score, score) for every phrase in the title
TitleLoop(order, job_title_lower, title_score) ==
    IF order = <<>> THEN title_score
    ELSE LET entry == title_keywords[Head(order)]
         IN  TitleLoop(Tail(order), job_title_lower,
                       IF Contains(entry.phrase, job_title_lower)
                       THEN Max(title_score, entry.score) ELSE title_score)

\* calculate_score, step 2: the loop over the target roles, 100 at the first
\* one found in the title
RoleScore(m, job_title_lower) ==
    IF \E i \in DOMAIN m.target_roles : Contains(m.target_roles[i], job_title_lower)
    THEN 100
    ELSE 0

\* calculate_score, step 2: the title score before the bonuses; the table
\* is gone through only if the loop over the target roles left 0
BaseTitleScore(m, job_title_lower) ==
    LET title_score == RoleScore(m, job_title_lower)
    IN  IF title_score = 0
        THEN TitleLoop(TableOrder, job_title_lower, 0)
        ELSE title_score

\* the two bonuses added with no cap
TitleBonusUncapped(base, job_title_lower) ==
    LET afterJun == IF Contains("junior", job_title_lower) THEN base + 10 ELSE base
    IN  IF Contains("analyst", job_title_lower) THEN afterJun + 5 ELSE afterJun

\* the two bonuses with their amounts exchanged
TitleBonusSwapped(base, job_title_lower) ==
    LET afterJun == IF Contains("junior", job_title_lower)
                    THEN Min(100, base + 5) ELSE base
    IN  IF Contains("analyst", job_title_lower)
        THEN Min(100, afterJun + 10) ELSE afterJun

\* calculate_score, step 2: the "junior" and "analyst" bonuses
TitleBonus(base, job_title_lower) ==
    LET afterJun == IF Contains("junior", job_title_lower)
                    THEN Min(100, base + 10) ELSE base
    IN  IF Contains("analyst", job_title_lower)
        THEN Min(100, afterJun + 5) ELSE afterJun

\* calculate_score, step 2 with the "junior" and "analyst" bonuses
TitleScore(m, job_title_lower) ==
    TitleBonus(BaseTitleScore(m, job_title_lower), job_title_lower)

\* the step function with one step mistyped (8 or 9 skills give 85)
StepScoreSlip(skill_count) ==
    IF skill_count >= 10 THEN 100
    ELSE IF skill_count >= 8 THEN 85
    ELSE IF skill_count >= 6 THEN 90
    ELSE IF skill_count >= 5 THEN 85
    ELSE IF skill_count >= 4 THEN 80
    ELSE IF skill_count >= 3 THEN 75
    ELSE IF skill_count >= 2 THEN 70
    ELSE IF skill_count >= 1 THEN 60
    ELSE 50

\* calculate_score, step 3: the step function on the number of matched skills
StepScore(skill_count) ==
    IF skill_count >= 10 THEN 100
    ELSE IF skill_count >= 8 THEN 95
    ELSE IF skill_count >= 6 THEN 90
    ELSE IF skill_count >= 5 THEN 85
    ELSE IF skill_count >= 4 THEN 80
    ELSE IF skill_count >= 3 THEN 75
    ELSE IF skill_count >= 2 THEN 70
    ELSE IF skill_count >= 1 THEN 60
    ELSE 50

\* the group bonus given once, however many groups have a member matched
GroupBonusOnce(found_skills) ==
    IF \E k \in DOMAIN skill_groups :
           \E j \in DOMAIN skill_groups[k].phrases :
               skill_groups[k].phrases[j] \in found_skills
    THEN 5 ELSE 0

\* calculate_score, step 3: 5 for every group with a member among the
\* matched skills
GroupBonus(found_skills) ==
    5 * Cardinality({ k \in DOMAIN skill_groups :
                        \E j \in DOMAIN skill_groups[k].phrases :
                            skill_groups[k].phrases[j] \in found_skills })

\* the skill score with no base score for a posting that matches no skill
SkillScoreNoFloor(found_skills) ==
    IF found_skills = {} THEN 0
    ELSE Min(100, StepScore(Cardinality(found_skills)) + GroupBonus(found_skills))

\* calculate_score, step 3: skill_score = min(100, step + group_bonus)
SkillScore(found_skills) ==
    Min(100, StepScore(Cardinality(found_skills)) + GroupBonus(found_skills))

\* A float with at most one decimal digit is held as its number of tenths.
\* n * 0.5 for an integer n: a whole number or a whole number and a half,
\* which a binary float holds exactly.
TimesHalf(n) == 5 * n

\* int(x) of a float: the fraction is dropped, towards zero
IntOf(tenths) ==
    IF tenths >= 0 THEN tenths \div 10 ELSE -((-tenths) \div 10)

\* the weighted total rounded half up instead of truncated
WeightedTotalRounded(title_score, skill_score) ==
    IntOf(TimesHalf(title_score) + TimesHalf(skill_score) + 5)

\* calculate_score, step 4: int((title_score * 0.5) + (skill_score * 0.5))
WeightedTotal(title_score, skill_score) ==
    IntOf(TimesHalf(title_score) + TimesHalf(skill_score))

\* the experience level bonus given once for each of its two conditions
ExperienceBonusTwice(total_score, job_title_lower, job_desc_lower) ==
    LET afterJun == IF Contains("junior", job_title_lower)
                    THEN Min(100, total_score + 5) ELSE total_score
    IN  IF Contains("entry", job_desc_lower) THEN Min(100, afterJun + 5) ELSE afterJun

\* calculate_score, step 5: the experience level bonus
ExperienceBonus(total_score, job_title_lower, job_desc_lower) ==
    IF Contains("junior", job_title_lower) \/ Contains("entry", job_desc_lower)
    THEN Min(100, total_score + 5) ELSE total_score

\* the tool diversity bonus added without the cap
ToolBonusUncapped(total_score, matched_skills) ==
    IF Cardinality(matched_skills \cap core_tools) >= 3
    THEN total_score + 5 ELSE total_score

\* the tool diversity bonus counting every matched entry
ToolBonusAnySkill(total_score, matched_skills) ==
    IF Cardinality(matched_skills) >= 3
    THEN Min(100, total_score + 5) ELSE total_score

\* calculate_score, step 5: the tool diversity bonus
ToolBonus(total_score, matched_skills) ==
    IF Cardinality(matched_skills \cap core_tools) >= 3
    THEN Min(100, total_score + 5) ELSE total_score

\* the auto-apply threshold defaulting to the review default
AutoThresholdDefault60(m) == Get(m.thresholds, "auto_apply_threshold", 60)

\* calculate_score, step 6: the thresholds read from the "matching" object
AutoThreshold(m) == Get(m.thresholds, "auto_apply_threshold", 70)

ReviewThreshold(m) == Get(m.thresholds, "review_threshold", 60)

\* the recommendation with the two tests in the other order
RecommendationReviewFirst(m, total_score) ==
    IF total_score >= ReviewThreshold(m) THEN "review"
    ELSE IF total_score >= AutoThreshold(m) THEN "auto_apply"
    ELSE "skip"

\* calculate_score, step 6: the recommendation for a total score
Recommendation(m, total_score) ==
    IF total_score >= AutoThreshold(m) THEN "auto_apply"
    ELSE IF total_score >= ReviewThreshold(m) THEN "review"
    ELSE "skip"

\* JobMatcher.calculate_score.  The record holds the returned tuple (score,
\* matched_skills, decision, reason) and the locals of the call: title_score
\* after the loop over the target roles (role_score), before the bonuses
\* (base_score) and after them, what should_exclude returned (exclusion), skill_score before the
\* group bonus (step_score) and after it, the weighted total (step 4) and
\* the total after the experience bonus; matched_skills is
\* list(found_skills), kept as the set of its entries.  An excluded posting
\* returns before any local is set.
calculate_score(m, job_title, job_description) ==
    LET job_title_lower == Lower(job_title)
        job_desc_lower  == IF job_description # "" THEN Lower(job_description) ELSE ""
        combined_text   == job_title_lower \o " " \o job_desc_lower
        excl            == should_exclude(m, job_title, job_description)
    IN  IF excl.excluded
        THEN [called |-> TRUE, title |-> job_title, description |-> job_description,
              score |-> 0, matched_skills |-> {}, decision |-> "exclude",
              reason |-> "Contains: " \o excl.keyword, exclusion |-> excl]
        ELSE LET role_score   == RoleScore(m, job_title_lower)
                 base_score   == BaseTitleScore(m, job_title_lower)
                 title_score  == TitleBonus(base_score, job_title_lower)
                 found_skills == extract_skills(m, combined_text)
                 step_score   == StepScore(Cardinality(found_skills))
                 skill_score  == SkillScore(found_skills)
                 weighted     == WeightedTotal(title_score, skill_score)
                 experienced  == ExperienceBonus(weighted, job_title_lower,
                                                 job_desc_lower)
                 total_score  == ToolBonus(experienced, found_skills)
             IN  [called |-> TRUE, title |-> job_title, description |-> job_description,
                  score |-> total_score, matched_skills |-> found_skills,
                  decision |-> Recommendation(m, total_score),
                  reason |-> None, exclusion |-> excl,
                  role_score |-> role_score,
                  base_score |-> base_score, title_score |-> title_score,
                  step_score |-> step_score, skill_score |-> skill_score,
                  weighted |-> weighted, experienced |-> experienced]

(***************************************************************************)
(* Inputs: configurations and postings                                     *)
(***************************************************************************)

\* bounds of the generated inputs
MaxTitleWords == 2

MaxDescWords == 2

\* An optional key of a JSON object: absent, or present with a value.
Absent == [present |-> FALSE]

Present(v) == [present |-> TRUE, value |-> v]

\* the candidate's lists as config.json may hold them (any letter case)
FullSkills == <<"SQL", "Excel", "Tally">>

FullRoles == <<"MIS Analyst", "Data Scientist">>

FullExclusions == <<"Senior", "Customer Service">>

\* The profiles: the full one, the one with no list at all, and the full
\* one with one list missing or holding a blank entry.
Profiles ==
    { [skills |-> Present(FullSkills), target_roles |-> Present(FullRoles),
       exclusion_keywords |-> Present(FullExclusions)],
      [skills |-> Absent, target_roles |-> Absent, exclusion_keywords |-> Absent],
      [skills |-> Absent, target_roles |-> Present(FullRoles),
       exclusion_keywords |-> Present(FullExclusions)],
      [skills |-> Present(FullSkills), target_roles |-> Absent,
       exclusion_keywords |-> Present(FullExclusions)],
      [skills |-> Present(FullSkills), target_roles |-> Present(FullRoles),
       exclusion_keywords |-> Absent],
      [skills |-> Present(<<"">>), target_roles |-> Present(FullRoles),
       exclusion_keywords |-> Present(FullExclusions)],
      [skills |-> Present(FullSkills), target_roles |-> Present(<<"">>),
       exclusion_keywords |-> Present(FullExclusions)],
      [skills |-> Present(FullSkills), target_roles |-> Present(FullRoles),
       exclusion_keywords |-> Present(<<" ">>)] }

\* values a threshold is configured with; 120 lies outside [0,100]
ThresholdValues == {25, 80, 120}

\* The JSON object built from the keys that are present.
Object(keys, opt) ==
    [k \in { x \in keys : opt[x].present } |-> opt[k].value]

\* "matching" of config.json: absent, or an object with any of the two
\* thresholds
MatchingOptions ==
    { Absent } \cup
    { Present(Object({"auto_apply_threshold", "review_threshold"},
                     [auto_apply_threshold |-> a, review_threshold |-> r])) :
        a \in { Absent } \cup { Present(v) : v \in ThresholdValues },
        r \in { Absent } \cup { Present(v) : v \in ThresholdValues } }

\* the configurations the engine is constructed from
Configs ==
    { Object({"skills", "target_roles", "exclusion_keywords", "matching"},
             [skills |-> p.skills, target_roles |-> p.target_roles,
              exclusion_keywords |-> p.exclusion_keywords, matching |-> ma]) :
        p \in Profiles, ma \in MatchingOptions }

\* words a generated title is made of, in the order they appear in it
TitleWords == <<"Senior", "Junior", "Analyst", "Data Analyst", "Data Scientist">>

\* words a generated description is made of
DescWords == <<"SQL", "Excel", "Python", "entry level">>

RECURSIVE Join(_, _)
\* the words at the increasing positions idx of words, joined by blanks
Join(words, idx) ==
    IF idx = {} THEN ""
    ELSE LET i == CHOOSE k \in idx : \A j \in idx : k <= j
         IN  IF idx = {i} THEN words[i]
             ELSE words[i] \o " " \o Join(words, idx \ {i})

\* every text of at most n of the words, in their order
Texts(words, n) ==
    { Join(words, idx) : idx \in { s \in SUBSET DOMAIN words : Cardinality(s) <= n } }

\* the postings of run_test (main.py) that the scenarios name
JuniorTitle == "Junior Data Analyst - SQL Excel Python Tableau"

JuniorDescription ==
    "SQL, Excel, Tableau, Power BI, Python, R, EDA, Statistics, Data Visualization"

MisTitle == "MIS Analyst Reporting"

\* a title with "entry" in it
EntryTitle == "Entry Level Analyst"

ServiceTitle == "Customer Service Representative"

Titles ==
    Texts(TitleWords, MaxTitleWords) \cup {JuniorTitle, MisTitle, ServiceTitle, EntryTitle}

Descriptions ==
    Texts(DescWords, MaxDescWords) \cup {JuniorDescription, MisTitle, ServiceTitle}

(***************************************************************************)
(* The state machine                                                       *)
(***************************************************************************)

NoProbe == [scored |-> FALSE]

\* no caller has called yet
NoCalls == <<>>

\* _process_job is not called yet
NoCall == [called |-> FALSE]

\* main.py is not run
NoRun ==
    /\ automation = [pc |-> "none"]
    /\ sheet = [connected |-> FALSE, rows |-> <<>>]
    /\ last_call = NoCall
    /\ trace = <<>>

Init ==
    /\ config \in Configs
    /\ matcher = NoMatcher
    /\ NoRun
    /\ result = NoResult
    /\ probe = NoProbe
    /\ calls = NoCalls

\* matcher = JobMatcher()
Construct ==
    /\ ~matcher.constructed
    /\ matcher' = JobMatcher(config)
    /\ UNCHANGED <<config, result, probe, calls>>
    /\ UNCHANGED runVars

\* matcher.calculate_score(job_title, job_description).  A behaviour follows
\* one call: the call leaves the matcher as it was, so every later call
\* starts from the state this one started from.
CalculateScore(job_title, job_description) ==
    /\ matcher.constructed
    /\ ~result.called
    /\ result' = calculate_score(matcher, job_title, job_description)
    /\ UNCHANGED <<config, matcher, probe, calls>>
    /\ UNCHANGED runVars

Next ==
    \/ Construct
    \/ \E t \in Titles, d \in Descriptions : CalculateScore(t, d)

Spec == Init /\ [][Next]_vars

(***************************************************************************)
(* The skill score as a function of the matched skills: the inputs are two *)
(* sets of matched entries, one within the other, and the one step scores  *)
(* both as calculate_score (step 3) does.                                  *)
(***************************************************************************)

\* how many of the entries below a matched set is drawn from
MaxSkillTokens == 10

\* canonical skills, profile skills and group names a text can match
SkillTokens ==
    <<"sql", "tableau", "data analysis", "git", "core_data", "visualization",
      "reporting", "tally", "eda", "r", "python", "excel">>

SkillUniverse ==
    { SkillTokens[i] : i \in { k \in DOMAIN SkillTokens : k <= MaxSkillTokens } }

InitSkills ==
    /\ config = <<>>
    /\ matcher = NoMatcher
    /\ NoRun
    /\ result = NoResult
    /\ calls = NoCalls
    /\ \E b \in SUBSET SkillUniverse : \E a \in SUBSET b :
           probe = [scored |-> FALSE, fewer |-> a, more |-> b]

\* skill_score of calculate_score for either set
ScoreSkills ==
    /\ ~probe.scored
    /\ probe' = [scored |-> TRUE, fewer |-> probe.fewer, more |-> probe.more,
                 fewer_score |-> SkillScore(probe.fewer),
                 more_score  |-> SkillScore(probe.more)]
    /\ UNCHANGED <<config, matcher, result, calls>>
    /\ UNCHANGED runVars

NextSkills == ScoreSkills

SpecSkills == InitSkills /\ [][NextSkills]_vars

\* The weighted total alone.  title_score is 0 or a table score raised by
\* the bonuses and capped at 100; skill_score is a step value, 50 at least,
\* raised by the group bonus and capped at 100.
TitleScoreRange == 0..100

SkillScoreRange == 50..100

InitTotal ==
    /\ config = <<>>
    /\ matcher = NoMatcher
    /\ NoRun
    /\ result = NoResult
    /\ calls = NoCalls
    /\ \E ts \in TitleScoreRange : \E ss \in SkillScoreRange :
           probe = [scored |-> FALSE, title_score |-> ts, skill_score |-> ss]

\* total_score of calculate_score, step 4, for the two scores
WeighTotal ==
    /\ ~probe.scored
    /\ probe' = [scored |-> TRUE, title_score |-> probe.title_score,
                 skill_score |-> probe.skill_score,
                 total_score |-> WeightedTotal(probe.title_score,
                                               probe.skill_score)]
    /\ UNCHANGED <<config, matcher, result, calls>>
    /\ UNCHANGED runVars

NextTotal == WeighTotal

SpecTotal == InitTotal /\ [][NextTotal]_vars

(***************************************************************************)
(* One engine shared by several callers.  Each caller runs calculate_score  *)
(* on its own posting; the locals of a call are the caller's own, and a     *)
(* step of a call is what it does between one read of the engine's fields   *)
(* and the next.  The steps of the callers interleave in any order.         *)
(***************************************************************************)

\* calls a caller makes, one after the other
MaxCalls == 2

\* the threads that share the engine
Callers == {"t1", "t2"}

\* the configurations the shared engine is built from: an empty one and the
\* full profile
SharedConfigs ==
    { <<>>,
      [skills |-> FullSkills, target_roles |-> FullRoles,
       exclusion_keywords |-> FullExclusions] }

\* the postings of run_test as _process_job passes them: a posting with no
\* description is passed with its title as description
TestJobs ==
    { [title |-> JuniorTitle, description |-> JuniorDescription],
      [title |-> MisTitle, description |-> MisTitle],
      [title |-> ServiceTitle, description |-> ServiceTitle] }

Idle(n) == [pc |-> "idle", done |-> n]

InitShared ==
    /\ config \in SharedConfigs
    /\ matcher = NoMatcher
    /\ NoRun
    /\ result = NoResult
    /\ probe = NoProbe
    /\ calls = [c \in Callers |-> Idle(0)]

\* a caller enters calculate_score with a posting
Call(c, job) ==
    /\ matcher.constructed
    /\ calls[c].pc = "idle"
    /\ calls[c].done < MaxCalls
    /\ calls' = [calls EXCEPT ![c] =
                    [pc |-> "exclude", done |-> @.done,
                     job_title |-> job.title, job_description |-> job.description]]
    /\ UNCHANGED <<config, matcher, result, probe>>
    /\ UNCHANGED runVars

\* step 1: the exclusion check, which reads the exclusions and returns at
\* once when a keyword is found
CheckExclusion(c) ==
    /\ calls[c].pc = "exclude"
    /\ LET excl == should_exclude(matcher, calls[c].job_title,
                                  calls[c].job_description)
       IN  calls' = [calls EXCEPT ![c] =
                        IF excl.excluded
                        THEN [pc |-> "returned", done |-> @.done,
                              job_title |-> @.job_title,
                              job_description |-> @.job_description,
                              returned |-> [score |-> 0, matched_skills |-> {},
                                            decision |-> "exclude",
                                            reason |-> "Contains: " \o excl.keyword]]
                        ELSE [@ EXCEPT !.pc = "title"]]
    /\ UNCHANGED <<config, matcher, result, probe>>
    /\ UNCHANGED runVars

\* step 2: the title score, which reads the target roles
ScoreTitle(c) ==
    /\ calls[c].pc = "title"
    /\ calls' = [calls EXCEPT ![c] =
                    [pc |-> "skills", done |-> @.done,
                     job_title |-> @.job_title,
                     job_description |-> @.job_description,
                     title_score |-> TitleScore(matcher, Lower(@.job_title))]]
    /\ UNCHANGED <<config, matcher, result, probe>>
    /\ UNCHANGED runVars

\* step 3 caching what it found in the engine's skills
MatchSkillsCaching(c) ==
    /\ calls[c].pc = "skills"
    /\ LET job_desc_lower == IF calls[c].job_description # ""
                             THEN Lower(calls[c].job_description) ELSE ""
           found_skills   == extract_skills(matcher,
                                 Lower(calls[c].job_title) \o " " \o job_desc_lower)
       IN  /\ calls' = [calls EXCEPT ![c] =
                           [pc |-> "recommend", done |-> @.done,
                            job_title |-> @.job_title,
                            job_description |-> @.job_description,
                            title_score |-> @.title_score,
                            found_skills |-> found_skills,
                            skill_score |-> SkillScore(found_skills)]]
           /\ matcher' = [matcher EXCEPT !.my_skills = @ \cup found_skills]
    /\ UNCHANGED <<config, result, probe>>
    /\ UNCHANGED runVars

\* step 3: the matched skills and the skill score, which read the skills and
\* the vocabulary
MatchSkills(c) ==
    /\ calls[c].pc = "skills"
    /\ LET job_desc_lower == IF calls[c].job_description # ""
                             THEN Lower(calls[c].job_description) ELSE ""
           found_skills   == extract_skills(matcher,
                                 Lower(calls[c].job_title) \o " " \o job_desc_lower)
       IN  calls' = [calls EXCEPT ![c] =
                        [pc |-> "recommend", done |-> @.done,
                         job_title |-> @.job_title,
                         job_description |-> @.job_description,
                         title_score |-> @.title_score,
                         found_skills |-> found_skills,
                         skill_score |-> SkillScore(found_skills)]]
    /\ UNCHANGED <<config, matcher, result, probe>>
    /\ UNCHANGED runVars

\* steps 4 to 6: the total with its bonuses and the recommendation, which
\* reads the thresholds; the call returns
Recommend(c) ==
    /\ calls[c].pc = "recommend"
    /\ LET job_title_lower == Lower(calls[c].job_title)
           job_desc_lower  == IF calls[c].job_description # ""
                              THEN Lower(calls[c].job_description) ELSE ""
           weighted    == WeightedTotal(calls[c].title_score, calls[c].skill_score)
           experienced == ExperienceBonus(weighted, job_title_lower, job_desc_lower)
           total_score == ToolBonus(experienced, calls[c].found_skills)
       IN  calls' = [calls EXCEPT ![c] =
                        [pc |-> "returned", done |-> @.done,
                         job_title |-> @.job_title,
                         job_description |-> @.job_description,
                         returned |-> [score |-> total_score,
                                       matched_skills |-> @.found_skills,
                                       decision |-> Recommendation(matcher, total_score),
                                       reason |-> None]]]
    /\ UNCHANGED <<config, matcher, result, probe>>
    /\ UNCHANGED runVars

\* the caller takes the returned tuple and is free to call again
TakeResult(c) ==
    /\ calls[c].pc = "returned"
    /\ calls' = [calls EXCEPT ![c] = Idle(@.done + 1)]
    /\ UNCHANGED <<config, matcher, result, probe>>
    /\ UNCHANGED runVars

NextShared ==
    \/ Construct
    \/ \E c \in Callers, job \in TestJobs : Call(c, job)
    \/ \E c \in Callers : CheckExclusion(c)
    \/ \E c \in Callers : ScoreTitle(c)
    \/ \E c \in Callers : MatchSkills(c)
    \/ \E c \in Callers : Recommend(c)
    \/ \E c \in Callers : TakeResult(c)

SpecShared == InitShared /\ [][NextShared]_vars

(***************************************************************************)
(* The orchestrator (main.py): JobAutomation, its _process_job and its      *)
(* runs, with the sheet (sheets_manager.py) and the notifier (notifier.py). *)
(* A posting is a Python dict, here a function from its keys to strings.    *)
(* What a call does outside the object is kept as the list of its effects:  *)
(* the calls to the cover letter generator, the sheet logger and the        *)
(* notifier, in the order they are made.  trace is the list of what a run   *)
(* does around its calls of _process_job, last_call the last such call.     *)
(***************************************************************************)

\* JobAutomation.__init__: the counters
NewStats ==
    [scanned |-> 0, applied |-> 0, skipped |-> 0, errors |-> 0,
     email_jobs_parsed |-> 0]

\* job.get('description', job.get('title', '')) with '' as the fallback
DescriptionOrEmpty(job) == Get(job, "description", "")

\* job.get('description', job.get('title', '')): the description handed to
\* calculate_score
DescriptionOf(job) == Get(job, "description", Get(job, "title", ""))

\* the cells of the row log_application appends that come from the posting
\* (the others are an identifier, the time, the score, 'Applied', the skills)
RowOf(job_data) ==
    <<Get(job_data, "platform", ""), Get(job_data, "title", ""),
      Get(job_data, "company", ""), Get(job_data, "url", ""), "Applied">>

\* SheetsManager.check_already_applied: False when not connected and when
\* the lookup raises, else whether sheet.find finds a cell equal to the URL
check_already_applied(sh, job_url, lookup) ==
    IF ~sh.connected THEN FALSE
    ELSE IF lookup = "raises" THEN FALSE
    ELSE \E i \in DOMAIN sh.rows : job_url \in Range(sh.rows[i])

\* SheetsManager.log_application: the sheet after the call; nothing is
\* appended when not connected or when the append raises
log_application(sh, job_data, append) ==
    IF ~sh.connected THEN sh
    ELSE IF append = "raises" THEN sh
    ELSE [sh EXCEPT !.rows = Append(@, RowOf(job_data))]

\* a counter of stats raised by one
Count(s, counter) == [s EXCEPT !.stats[counter] = @ + 1]

\* an effect added to those of the call
Effect(s, kind) == [s EXCEPT !.effects = Append(@, kind)]

\* _process_job, lines 228-232: the posting is excluded
HandleExclude(s) == Count(s, "skipped")

\* _process_job, lines 234-261: the posting is routed auto_apply.
\* LinkedInScraper has no attribute auto_apply_to_job: with the auto_apply
\* flag, a LinkedIn posting and a scraper, line 250 raises AttributeError.
HandleAutoApply(s, job, score, auto_apply, linkedin_scraper, env) ==
    LET lettered == Effect(s, "cover_letter")
        logged   == Effect([lettered EXCEPT
                               !.sheet = log_application(@, job, env.append)],
                           "log_application")
        applied  == Count(Effect(logged, "notify_application"), "applied")
    IN  IF /\ auto_apply
           /\ Get(job, "platform", None) = "LinkedIn"
           /\ linkedin_scraper # None
        THEN [logged EXCEPT !.raised = TRUE]
        ELSE IF score >= 85 THEN Effect(applied, "notify_high_match") ELSE applied

\* _process_job, lines 263-270: the posting is queued for review
HandleReview(s, job, env) ==
    Count(Effect([s EXCEPT !.sheet = log_application(@, job, env.append)],
                 "log_application"),
          "skipped")

\* the skip branch logging the posting to the sheet
HandleSkipLogged(s, job, env) ==
    Count(Effect([s EXCEPT !.sheet = log_application(@, job, env.append)],
                 "log_application"),
          "skipped")

\* _process_job, lines 272-274: the score is too low
HandleSkip(s, job, env) == Count(s, "skipped")

\* the score of a posting that is not scored
NoScore == -1

\* what _process_job leaves behind: the counters and the sheet after the
\* call, its effects in order, whether it raised, and what calculate_score
\* returned to it (outcome is the recommendation, or "already_applied" when
\* the posting is not scored)
Returned(s, outcome, score, matched_skills) ==
    [stats |-> s.stats, sheet |-> s.sheet, effects |-> s.effects,
     raised |-> s.raised, outcome |-> outcome, score |-> score,
     matched_skills |-> matched_skills]

\* _process_job, lines 222-274: the branch of the recommendation r.decision
Route(s, job, r, auto_apply, linkedin_scraper, env) ==
    Returned(IF r.decision = "exclude" THEN HandleExclude(s)
             ELSE IF r.decision = "auto_apply"
                  THEN HandleAutoApply(s, job, r.score, auto_apply,
                                       linkedin_scraper, env)
             ELSE IF r.decision = "review" THEN HandleReview(s, job, env)
             ELSE HandleSkip(s, job, env),
             r.decision, r.score, r.matched_skills)

\* _process_job, line 207: the call is counted
Entered(self) ==
    [stats |-> [self.stats EXCEPT !.scanned = @ + 1], sheet |-> self.sheets,
     effects |-> <<>>, raised |-> FALSE]

\* JobAutomation._process_job.  self holds stats, sheets, matcher and
\* linkedin_scraper; env says whether the sheet lookup and the sheet append
\* of this call raise.
process_job(self, job, auto_apply, env) ==
    IF /\ self.sheets.connected
       /\ check_already_applied(self.sheets, Get(job, "url", ""), env.lookup)
    THEN Returned(Count(Entered(self), "skipped"), "already_applied", NoScore, {})
    ELSE Route(Entered(self), job,
               calculate_score(self.matcher, Get(job, "title", ""),
                               DescriptionOf(job)),
               auto_apply, self.linkedin_scraper, env)

(***************************************************************************)
(* The runs of main.py.  automation.pc is the position of the run:         *)
(* "ready" after JobAutomation.__init__, "setup" before the loop over the   *)
(* postings, "loop" in it, "except" and "finally" in the handlers of the    *)
(* run, "done" after it, "crashed" when an exception left the run.          *)
(***************************************************************************)

\* postings one run processes at most
MaxJobs == 2

Modes == {"test", "naukri", "linkedin", "email"}

\* config.json of the runs: the full profile with the default thresholds,
\* and with an auto-apply threshold no score reaches
RunConfigs ==
    { [skills |-> FullSkills, target_roles |-> FullRoles,
       exclusion_keywords |-> FullExclusions],
      [skills |-> FullSkills, target_roles |-> FullRoles,
       exclusion_keywords |-> FullExclusions,
       matching |-> [auto_apply_threshold |-> 120]] }

\* run_test: test_jobs
TestRunJobs ==
    << [title |-> JuniorTitle, company |-> "Test Company",
        description |-> JuniorDescription,
        url |-> "https://example.com/job5", platform |-> "Test"],
       [title |-> MisTitle, company |-> "ABC Corp",
        url |-> "https://example.com/job2", platform |-> "Test"],
       [title |-> ServiceTitle, company |-> "XYZ Ltd",
        url |-> "https://example.com/job3", platform |-> "Test"] >>

\* LinkedInScraper.search_jobs: postings with no description, platform
\* 'LinkedIn'
LinkedInJobs ==
    { [title |-> ti, url |-> "https://jobs.example/1", platform |-> "LinkedIn"] :
        ti \in {"Data Analyst", MisTitle, EntryTitle, ServiceTitle} } \cup
    { [title |-> ti, url |-> "https://jobs.example/2", platform |-> "LinkedIn"] :
        ti \in {"Data Analyst", MisTitle} }

\* JobScraper.search_jobs: platform 'Naukri', a description only when the
\* page has one
NaukriJobs ==
    { [title |-> JuniorTitle, description |-> JuniorDescription,
       url |-> "https://jobs.example/1", platform |-> "Naukri"],
      [title |-> "Data Analyst", url |-> "https://jobs.example/1",
       platform |-> "Naukri"],
      [title |-> EntryTitle, url |-> "https://jobs.example/2",
       platform |-> "Naukri"],
      [title |-> ServiceTitle, url |-> "https://jobs.example/2",
       platform |-> "Naukri"] }

\* EmailParser.get_all_jobs: postings of job alert mails, platform 'Naukri',
\* no description
EmailJobs ==
    { [title |-> MisTitle, url |-> "https://jobs.example/1", platform |-> "Naukri"],
      [title |-> "Data Analyst", url |-> "https://jobs.example/2",
       platform |-> "Naukri"] }

\* the postings the loop of a run may hand to _process_job as its n-th
JobsOf(mode, n) ==
    IF mode = "test" THEN IF n \in DOMAIN TestRunJobs THEN {TestRunJobs[n]} ELSE {}
    ELSE IF n > MaxJobs THEN {}
    ELSE IF mode = "linkedin" THEN LinkedInJobs
    ELSE IF mode = "naukri" THEN NaukriJobs
    ELSE EmailJobs

\* whether sheet.find and sheet.append_row of one call raise; the sheet is
\* not reached when it is not connected
Envs(sh) ==
    IF sh.connected
    THEN [lookup : {"ok", "raises"}, append : {"ok", "raises"}]
    ELSE {[lookup |-> "ok", append |-> "ok"]}

\* the sheet before the run: empty, or holding a posting logged earlier
PriorRows ==
    { <<>>,
      << RowOf([title |-> "Data Analyst", url |-> "https://jobs.example/1",
                platform |-> "LinkedIn"]) >> }

\* the state after JobAutomation.__init__
InitRun ==
    /\ config \in RunConfigs
    /\ matcher = JobMatcher(config)
    /\ result = NoResult
    /\ probe = NoProbe
    /\ calls = NoCalls
    /\ automation = [pc |-> "ready", mode |-> None, auto_apply |-> FALSE,
                     stats |-> NewStats, scraper |-> None,
                     linkedin_scraper |-> None, index |-> 1]
    /\ sheet \in [connected : {FALSE}, rows : PriorRows]
    /\ last_call = NoCall
    /\ trace = <<>>

\* run_test, run_naukri, run_linkedin, run_email_parser up to the try:
\* sheets.connect() connects or not, then notify_startup (not in run_test).
\* Only run_linkedin takes the auto_apply flag.
StartRun(mode, auto_apply, connected) ==
    /\ automation.pc = "ready"
    /\ auto_apply => mode = "linkedin"
    /\ automation' = [automation EXCEPT !.pc = IF mode = "test" THEN "loop" ELSE "setup",
                                        !.mode = mode,
                                        !.auto_apply = auto_apply]
    /\ sheet' = [sheet EXCEPT !.connected = connected]
    /\ trace' = IF mode = "test" THEN <<"connect">>
                ELSE <<"connect", "notify_startup">>
    /\ UNCHANGED <<config, matcher, result, probe, calls, last_call>>

\* the scraper of the run is constructed, its browser starts, the login is
\* made and the first search returns; run_email_parser has postings
SetupOk ==
    /\ automation.pc = "setup"
    /\ automation' = [automation EXCEPT
                         !.pc = "loop",
                         !.scraper = IF automation.mode = "naukri" THEN "open" ELSE @,
                         !.linkedin_scraper =
                             IF automation.mode = "linkedin" THEN "open" ELSE @]
    /\ UNCHANGED <<config, matcher, result, probe, calls, sheet, last_call, trace>>

\* run_email_parser returns from its try: the parser is not enabled, or
\* there is no posting
SetupReturns ==
    /\ automation.pc = "setup"
    /\ automation.mode = "email"
    /\ automation' = [automation EXCEPT !.pc = "finally"]
    /\ UNCHANGED <<config, matcher, result, probe, calls, sheet, last_call, trace>>

\* the try raises before the first posting, with the scraper assigned
\* (the browser does not start, the login raises) or not (its constructor
\* raises); run_email_parser has no scraper
SetupRaises(opened) ==
    /\ automation.pc = "setup"
    /\ opened => automation.mode # "email"
    /\ automation' = [automation EXCEPT
                         !.pc = "except",
                         !.scraper = IF opened /\ automation.mode = "naukri"
                                     THEN "open" ELSE @,
                         !.linkedin_scraper =
                             IF opened /\ automation.mode = "linkedin"
                             THEN "open" ELSE @]
    /\ UNCHANGED <<config, matcher, result, probe, calls, sheet, last_call, trace>>

\* one call of _process_job: its arguments, the state it started from and
\* what it did
CallRecord(job, env, r) ==
    [called |-> TRUE, job |-> job, auto_apply |-> automation.auto_apply,
     linkedin_scraper |-> automation.linkedin_scraper,
     connected |-> sheet.connected, env |-> env,
     outcome |-> r.outcome, score |-> r.score,
     matched_skills |-> r.matched_skills,
     effects |-> r.effects, raised |-> r.raised,
     before |-> automation.stats, after |-> r.stats,
     rows_before |-> sheet.rows, rows_after |-> r.sheet.rows]

\* the run after a call of _process_job that left r behind: an exception
\* of the call leaves the loop for the except clause of the run (run_test
\* has none)
Returns(job, env, r) ==
    /\ automation' = [automation EXCEPT
                         !.stats = r.stats,
                         !.index = @ + 1,
                         !.pc = IF ~r.raised THEN "loop"
                                ELSE IF automation.mode = "test" THEN "crashed"
                                ELSE "except"]
    /\ sheet' = r.sheet
    /\ last_call' = CallRecord(job, env, r)
    /\ trace' = Append(trace, "process_job")

\* the loop of a run calls _process_job with its next posting
ProcessNext(job, env) ==
    /\ automation.pc = "loop"
    /\ job \in JobsOf(automation.mode, automation.index)
    /\ Returns(job, env,
               process_job([stats |-> automation.stats, sheets |-> sheet,
                            matcher |-> matcher,
                            linkedin_scraper |-> automation.linkedin_scraper],
                           job, automation.auto_apply, env))
    /\ UNCHANGED <<config, matcher, result, probe, calls>>

\* a search or a step between two postings raises
LoopRaises ==
    /\ automation.pc = "loop"
    /\ automation.mode # "test"
    /\ automation' = [automation EXCEPT !.pc = "except"]
    /\ UNCHANGED <<config, matcher, result, probe, calls, sheet, last_call, trace>>

\* the loop of run_naukri, run_linkedin or run_email_parser ends
EndLoop ==
    /\ automation.pc = "loop"
    /\ automation.mode # "test"
    /\ automation' = [automation EXCEPT !.pc = "finally"]
    /\ UNCHANGED <<config, matcher, result, probe, calls, sheet, last_call, trace>>

\* run_test after its three postings: _print_summary
EndTest ==
    /\ automation.pc = "loop"
    /\ automation.mode = "test"
    /\ automation.index > Len(TestRunJobs)
    /\ automation' = [automation EXCEPT !.pc = "done"]
    /\ trace' = Append(trace, "print_summary")
    /\ UNCHANGED <<config, matcher, result, probe, calls, sheet, last_call>>

\* the except clause with no error notification
ExceptSilent ==
    /\ automation.pc = "except"
    /\ automation' = [automation EXCEPT !.pc = "finally", !.stats.errors = @ + 1]
    /\ UNCHANGED <<config, matcher, result, probe, calls, sheet, last_call, trace>>

\* except Exception as e: notify_error, stats['errors'] += 1
Except ==
    /\ automation.pc = "except"
    /\ automation' = [automation EXCEPT !.pc = "finally", !.stats.errors = @ + 1]
    /\ trace' = Append(trace, "notify_error")
    /\ UNCHANGED <<config, matcher, result, probe, calls, sheet, last_call>>

\* finally: the scraper of the run is closed if there is one, then
\* _print_summary and notify_summary
Finally ==
    /\ automation.pc = "finally"
    /\ automation' = [automation EXCEPT
                         !.pc = "done",
                         !.scraper =
                             IF automation.mode = "naukri" /\ @ # None
                             THEN "closed" ELSE @,
                         !.linkedin_scraper =
                             IF automation.mode = "linkedin" /\ @ # None
                             THEN "closed" ELSE @]
    /\ trace' = trace \o
                (IF \/ automation.mode = "naukri" /\ automation.scraper # None
                    \/ automation.mode = "linkedin" /\ automation.linkedin_scraper # None
                 THEN <<"close">> ELSE <<>>) \o
                <<"print_summary", "notify_summary">>
    /\ UNCHANGED <<config, matcher, result, probe, calls, sheet, last_call>>

NextRun ==
    \/ \E mode \in Modes, auto_apply \in BOOLEAN, connected \in BOOLEAN :
           StartRun(mode, auto_apply, connected)
    \/ SetupOk
    \/ SetupReturns
    \/ \E opened \in BOOLEAN : SetupRaises(opened)
    \/ \E job \in LinkedInJobs \cup NaukriJobs \cup EmailJobs \cup Range(TestRunJobs),
          env \in Envs(sheet) : ProcessNext(job, env)
    \/ LoopRaises
    \/ EndLoop
    \/ EndTest
    \/ Except
    \/ Finally

SpecRun == InitRun /\ [][NextRun]_vars

\* what a run does besides processing a posting
RunStep ==
    \/ SetupOk
    \/ SetupReturns
    \/ \E opened \in BOOLEAN : SetupRaises(opened)
    \/ LoopRaises
    \/ EndLoop
    \/ Except
    \/ Finally

\* a run is not suspended: its setup returns or raises, its loop over the
\* postings found ends or raises, and its handlers complete
SpecRunFair == SpecRun /\ WF_vars(RunStep)

(***************************************************************************)
(* Properties                                                              *)
(***************************************************************************)

\* the text the exclusion check is made on, written out
PostingText == Lower(result.title \o " " \o result.description)

\* some configured exclusion keyword (lower-cased) occurs in the posting
KeywordInPosting ==
    \E k \in Range(Get(config, "exclusion_keywords", <<>>)) :
        Contains(Lower(k), PostingText)

\* the thresholds in force are the defaults 70 and 60
DefaultThresholds == AutoThreshold(matcher) = 70 /\ ReviewThreshold(matcher) = 60

\* the thresholds in force lie in [0,100], auto-apply not below review
ValidThresholds ==
    /\ AutoThreshold(matcher) \in 0..100
    /\ ReviewThreshold(matcher) \in 0..100
    /\ AutoThreshold(matcher) >= ReviewThreshold(matcher)

\* a string of blanks only (the empty string included)
Blank(s) == \A i \in 1..Len(s) : SubSeq(s, i, i) = " "

\* no entry of the configured list is blank
NonBlankList(key) == \A s \in Range(Get(config, key, <<>>)) : ~Blank(s)

\* C1 (exclusion dominance): whenever a configured exclusion keyword occurs
\* in the lower-cased text of title and description, calculate_score
\* returns the decision exclude with score 0 and no matched skill, whatever
\* skills, target roles or title phrases the text holds as well.
ExclusionDominance ==
    (result.called /\ KeywordInPosting) =>
        /\ result.decision = "exclude"
        /\ result.score = 0
        /\ result.matched_skills = {}

\* an excluded posting whose title matches a target role and whose text
\* holds at least three skills
ExclusionDominanceWitness ==
    /\ result.called
    /\ result.title = "Senior Data Scientist"
    /\ result.description = "SQL Excel"
    /\ KeywordInPosting
    /\ result.decision = "exclude"
    /\ BaseTitleScore(matcher, Lower(result.title)) = 100
    /\ Cardinality(extract_skills(matcher, PostingText)) >= 3

\* C2 (threshold partition): with auto_apply_threshold >= review_threshold,
\* every score of 0..100 gets exactly one of auto_apply, review and skip:
\* auto_apply iff score >= auto, review iff review <= score < auto, skip iff
\* score < review; and so does the score of every evaluation that is not
\* excluded.
ThresholdPartition ==
    (matcher.constructed /\ AutoThreshold(matcher) >= ReviewThreshold(matcher)) =>
        LET auto   == AutoThreshold(matcher)
            review == ReviewThreshold(matcher)
            Partitioned(s, d) ==
                /\ d \in {"auto_apply", "review", "skip"}
                /\ (d = "auto_apply") <=> (s >= auto)
                /\ (d = "review") <=> (review <= s /\ s < auto)
                /\ (d = "skip") <=> (s < review)
        IN  /\ \A s \in 0..100 : Partitioned(s, Recommendation(matcher, s))
            /\ (result.called /\ result.decision # "exclude") =>
                   Partitioned(result.score, result.decision)

\* a posting routed to review between two configured thresholds
ThresholdPartitionWitness ==
    /\ result.called
    /\ DOMAIN matcher.thresholds = {"auto_apply_threshold", "review_threshold"}
    /\ AutoThreshold(matcher) > ReviewThreshold(matcher)
    /\ result.decision = "review"
    /\ ReviewThreshold(matcher) <= result.score
    /\ result.score < AutoThreshold(matcher)

\* C3 (bound): the score calculate_score returns is an integer of 0..100,
\* and so is the total after the weighting and after the experience bonus.
ScoreBound ==
    result.called =>
        /\ result.score \in 0..100
        /\ (result.decision # "exclude") =>
               /\ result.weighted \in 0..100
               /\ result.experienced \in 0..100

\* a posting at the cap: a weighted total of 100 with both bonuses due
ScoreBoundWitness ==
    /\ result.called
    /\ result.decision # "exclude"
    /\ result.weighted = 100
    /\ Contains("junior", Lower(result.title))
    /\ Cardinality(result.matched_skills \cap core_tools) >= 3
    /\ result.score = 100

\* C5 (configuration fail-fast): no engine exists whose thresholds lie
\* outside [0,100] or whose auto_apply_threshold is below its
\* review_threshold.
ConfigFailFast == matcher.constructed => ValidThresholds

\* C6 (monotonicity of the skill score): for matched sets A within B, the
\* skill score of B (step value plus group bonus) is not below that of A.
SkillMonotone == probe.scored => probe.fewer_score <= probe.more_score

\* one more matched skill that raises the skill score
SkillMonotoneWitness ==
    /\ probe.scored
    /\ probe.fewer \subseteq probe.more
    /\ Cardinality(probe.more) = Cardinality(probe.fewer) + 1
    /\ probe.fewer_score < probe.more_score

\* C7 (scenario MIS Analyst Reporting): the posting with that title and the
\* title as description, no exclusion keyword in it and the default
\* thresholds, has no matched skill, skill_score 50, title_score 100, a
\* total of 60..69 and the decision review.
MisScenario ==
    (/\ result.called
     /\ result.title = MisTitle
     /\ result.description = MisTitle
     /\ ~KeywordInPosting
     /\ DefaultThresholds) =>
        /\ result.decision = "review"
        /\ result.matched_skills = {}
        /\ result.skill_score = 50
        /\ result.title_score = 100
        /\ result.score \in 60..69

\* what an empty title with an empty description yields
EmptyInputResult ==
    /\ result.decision # "exclude"
    /\ result.title_score = 0
    /\ result.matched_skills = {}
    /\ result.skill_score = 50
    /\ result.score = 25
    /\ DefaultThresholds => result.decision = "skip"

\* C8 as claimed (totality on empty input): with valid thresholds and
\* non-blank exclusion keywords and profile skills, the empty posting has
\* title_score 0, no matched skill, skill_score 50, score 25 and, under the
\* default thresholds, the decision skip.
EmptyInput ==
    (/\ result.called
     /\ result.title = ""
     /\ result.description = ""
     /\ ValidThresholds
     /\ NonBlankList("exclusion_keywords")
     /\ NonBlankList("skills")) =>
        EmptyInputResult

\* C8 as amended: the same, for configurations whose target roles are
\* non-blank as well.
EmptyInputAmended ==
    (/\ result.called
     /\ result.title = ""
     /\ result.description = ""
     /\ ValidThresholds
     /\ NonBlankList("exclusion_keywords")
     /\ NonBlankList("skills")
     /\ NonBlankList("target_roles")) =>
        EmptyInputResult

\* the empty posting skipped under a full profile and the default thresholds
EmptyInputWitness ==
    /\ result.called
    /\ result.title = ""
    /\ result.description = ""
    /\ Get(config, "skills", <<>>) = FullSkills
    /\ Get(config, "target_roles", <<>>) = FullRoles
    /\ Get(config, "exclusion_keywords", <<>>) = FullExclusions
    /\ DefaultThresholds
    /\ result.score = 25
    /\ result.decision = "skip"

\* C9 (default configuration): a missing auto_apply_threshold is taken as
\* 70 and a missing review_threshold as 60, each on its own; missing lists
\* are taken as empty; with neither threshold configured, a total that is
\* not excluded is auto_apply from 70, review in 60..69 and skip below 60.
DefaultConfiguration ==
    matcher.constructed =>
        LET matching      == Get(config, "matching", <<>>)
            autoMissing   == "auto_apply_threshold" \notin DOMAIN matching
            reviewMissing == "review_threshold" \notin DOMAIN matching
            Routed(s, d)  == d = IF s >= 70 THEN "auto_apply"
                                 ELSE IF s >= 60 THEN "review" ELSE "skip"
        IN  /\ autoMissing =>
                  \A s \in 0..100 :
                      (Recommendation(matcher, s) = "auto_apply") <=> (s >= 70)
            /\ reviewMissing =>
                  \A s \in 0..100 :
                      (Recommendation(matcher, s) # "auto_apply") =>
                          ((Recommendation(matcher, s) = "review") <=> (s >= 60))
            /\ ("skills" \notin DOMAIN config) => matcher.my_skills = {}
            /\ ("target_roles" \notin DOMAIN config) => matcher.target_roles = <<>>
            /\ ("exclusion_keywords" \notin DOMAIN config) => matcher.exclusions = <<>>
            /\ (autoMissing /\ reviewMissing /\ result.called
                    /\ result.decision # "exclude") =>
                   Routed(result.score, result.decision)

\* a posting with a total of 60..69 sent to review by an engine whose
\* configuration names no threshold and no list
DefaultConfigurationWitness ==
    /\ result.called
    /\ DOMAIN config = {}
    /\ matcher.my_skills = {}
    /\ result.score \in 60..69
    /\ result.decision = "review"

\* C10 (scenario Junior Data Analyst): the posting of run_test with that
\* title and description, no exclusion keyword in it and the default
\* thresholds, has title_score >= 95, at least 10 matched skills,
\* skill_score 100, a total >= 85 and the decision auto_apply.
JuniorScenario ==
    (/\ result.called
     /\ result.title = JuniorTitle
     /\ result.description = JuniorDescription
     /\ ~KeywordInPosting
     /\ DefaultThresholds) =>
        /\ result.decision = "auto_apply"
        /\ result.title_score >= 95
        /\ Cardinality(result.matched_skills) >= 10
        /\ result.skill_score = 100
        /\ result.score >= 85

\* the scenario evaluated by an engine with an empty profile
JuniorScenarioWitness ==
    /\ result.called
    /\ result.title = JuniorTitle
    /\ result.description = JuniorDescription
    /\ DOMAIN config = {}
    /\ result.decision = "auto_apply"
    /\ Cardinality(result.matched_skills) >= 10

\* the skill groups with a member phrase among a set of matched skills
GroupsWithMember(found) ==
    { k \in DOMAIN skill_groups : Range(skill_groups[k].phrases) \cap found # {} }

\* the step value of a number of matched skills
StepValue(n) ==
    CASE n >= 10     -> 100
      [] n \in 8..9  -> 95
      [] n \in 6..7  -> 90
      [] n = 5       -> 85
      [] n = 4       -> 80
      [] n = 3       -> 75
      [] n = 2       -> 70
      [] n = 1       -> 60
      [] OTHER       -> 50

\* the posting was scored, not excluded
Scored == result.called /\ result.decision # "exclude"

\* C12 (group bonus, as claimed): skill_score is the step value of the
\* matched count plus 5 for every skill group with a member among the
\* matched skills, with no cap at 100 on skill_score itself.
GroupBonusUncapped ==
    Scored =>
        result.skill_score =
            StepValue(Cardinality(result.matched_skills))
                + 5 * Cardinality(GroupsWithMember(result.matched_skills))

\* C12 (group bonus, amended): skill_score is the smaller of 100 and the step
\* value of the matched count plus 5 for every skill group with a member
\* among the matched skills; the capped value is what enters the weighted
\* total.
GroupBonusCapped ==
    Scored =>
        LET sum == StepValue(Cardinality(result.matched_skills))
                       + 5 * Cardinality(GroupsWithMember(result.matched_skills))
        IN  /\ result.skill_score = IF sum > 100 THEN 100 ELSE sum
            /\ result.skill_score <= 100
            /\ result.weighted = (result.title_score + result.skill_score) \div 2

\* a posting whose step value is 100 and that has three groups matched:
\* 100, not 115, enters the weighted total
GroupBonusCappedWitness ==
    /\ Scored
    /\ result.step_score = 100
    /\ Cardinality(GroupsWithMember(result.matched_skills)) = 3
    /\ result.skill_score = 100
    /\ result.weighted = (result.title_score + 100) \div 2

\* C13 (skill step function): before the group bonus, skill_score depends
\* only on the number n of entries of the matched set, skills and group
\* names alike: 100 from 10, 95 for 8..9, 90 for 6..7, 85 for 5, 80 for 4,
\* 75 for 3, 70 for 2, 60 for 1 and 50 for 0.
SkillStepFunction ==
    Scored =>
        LET n == Cardinality(result.matched_skills)
        IN  /\ n >= 10    => result.step_score = 100
            /\ n \in 8..9 => result.step_score = 95
            /\ n \in 6..7 => result.step_score = 90
            /\ n = 5      => result.step_score = 85
            /\ n = 4      => result.step_score = 80
            /\ n = 3      => result.step_score = 75
            /\ n = 2      => result.step_score = 70
            /\ n = 1      => result.step_score = 60
            /\ n = 0      => result.step_score = 50

\* nine entries, group names among them, give 95 before the group bonus
SkillStepFunctionWitness ==
    /\ Scored
    /\ Cardinality(result.matched_skills) = 9
    /\ "core_data" \in result.matched_skills
    /\ result.step_score = 95

\* C14 (weighted total truncates): for every title_score in 0..100 and every
\* skill_score, the total before the later bonuses is the floor of
\* (title_score + skill_score) / 2: the largest integer whose double is at
\* most the sum, so that a half x.5 becomes x.
WeightedTotalTruncates ==
    probe.scored =>
        LET sum == probe.title_score + probe.skill_score
        IN  /\ 2 * probe.total_score <= sum
            /\ sum < 2 * (probe.total_score + 1)
            /\ (sum % 2 = 1) => probe.total_score = (sum - 1) \div 2

\* 75 and 50 weigh 62.5, which becomes 62
WeightedTotalTruncatesWitness ==
    /\ probe.scored
    /\ probe.title_score = 75
    /\ probe.skill_score = 50
    /\ probe.total_score = 62

\* pass 1 written out: the configured skills, lower-cased, that occur in a
\* lower-cased text
ProfilePass(text) ==
    { s \in { Lower(c) : c \in Range(Get(config, "skills", <<>>)) } :
        Contains(s, text) }

\* pass 2 written out: the canonical skills with a synonym phrase in the text
SynonymPass(text) ==
    { skill_synonyms[k].name :
        k \in { i \in DOMAIN skill_synonyms :
                  \E p \in Range(skill_synonyms[i].phrases) : Contains(p, text) } }

\* pass 3 written out: the names of the groups with a member phrase in the text
GroupPass(text) ==
    { skill_groups[k].name :
        k \in { i \in DOMAIN skill_groups :
                  \E p \in Range(skill_groups[i].phrases) : Contains(p, text) } }

\* C15 (skill extraction): the matched skills of a scored posting are the
\* union of three passes over the lower-cased text: the profile skills that
\* occur in it, the canonical skills with a synonym phrase in it, and the
\* names of the groups with a member phrase in it; nothing else is matched,
\* and an entry found by several passes counts once.
SkillExtractionUnion ==
    Scored =>
        LET text  == PostingText
            union == ProfilePass(text) \cup SynonymPass(text) \cup GroupPass(text)
        IN  /\ result.matched_skills = union
            /\ result.step_score = StepValue(Cardinality(union))

\* "excel" found by the profile pass and by the synonym pass and counted
\* once, next to a group name
SkillExtractionUnionWitness ==
    /\ Scored
    /\ result.matched_skills = {"excel", "core_data"}
    /\ result.step_score = 70
    /\ LET text == PostingText
       IN  /\ "excel" \in ProfilePass(text) \cap SynonymPass(text)
           /\ "core_data" \in GroupPass(text)

\* C16 (no word boundary): every scored posting whose lower-cased title and
\* description contain the letter "r" anywhere, inside a word or not, has
\* the skill "r" and the group name "core_data" among its matched skills,
\* hence at least 2 matched skills and, with the bonus of that group, a
\* skill_score of 75 or more, whatever the profile.
LetterRMatches ==
    (Scored /\ Contains("r", PostingText)) =>
        /\ "r" \in result.matched_skills
        /\ "core_data" \in result.matched_skills
        /\ Cardinality(result.matched_skills) >= 2
        /\ result.skill_score >= 75

\* the title "Junior" alone, scored by an engine with no skill configured:
\* the "r" of the word gives the two entries and 70 + 5
LetterRMatchesWitness ==
    /\ Scored
    /\ result.title = "Junior"
    /\ result.description = ""
    /\ "skills" \notin DOMAIN config
    /\ result.matched_skills = {"r", "core_data"}
    /\ result.skill_score = 75

\* the lower-cased title of the posting
TitleLower == Lower(result.title)

\* some configured target role, lower-cased, occurs in the lower-cased title
RoleInTitle ==
    \E role \in Range(Get(config, "target_roles", <<>>)) :
        Contains(Lower(role), TitleLower)

\* the entries of the title table whose phrase occurs in a lower-cased title
TableHits(title) ==
    { i \in DOMAIN title_keywords : Contains(title_keywords[i].phrase, title) }

\* C17 (target-role title match): whenever a configured target role occurs
\* in the lower-cased title, the loop over the roles leaves 100, the title
\* table is not gone through (it is only when that loop left 0), and the
\* title_score after the junior and analyst bonuses is 100.
TargetRoleMatch ==
    (Scored /\ RoleInTitle) =>
        /\ result.role_score = 100
        /\ result.base_score = 100
        /\ result.title_score = 100

\* "Junior Data Scientist" with the role "Data Scientist" configured: the
\* table alone would give 75, and the junior bonus finds 100 already
TargetRoleMatchWitness ==
    /\ Scored
    /\ RoleInTitle
    /\ result.title = "Junior Data Scientist"
    /\ TitleLoop(TableOrder, TitleLower, 0) = 75
    /\ result.title_score = 100

\* the largest number of a non-empty set of numbers
Largest(S) == CHOOSE s \in S : \A u \in S : s >= u

\* the entries of a set, one after the other in increasing order
RECURSIVE InOrder(_)
InOrder(S) ==
    IF S = {} THEN <<>>
    ELSE LET least == CHOOSE s \in S : \A u \in S : s <= u
         IN  <<least>> \o InOrder(S \ {least})

\* every order the entries of a set can be gone through in
OrdersOf(S) ==
    { f \in [1..Cardinality(S) -> S] :
        \A i, j \in 1..Cardinality(S) : (i # j) => (f[i] # f[j]) }

\* the table in reverse
ReverseOrder == [i \in DOMAIN title_keywords |-> Len(title_keywords) + 1 - i]

\* C18 (title table maximum): when no target role occurs in the title, the
\* title score before the bonuses is the largest table score among the
\* table phrases that occur in the lower-cased title, 0 when none occurs,
\* and going through the table in another order gives the same value: in
\* reverse, or with the phrases that occur taken first in any order.
TitleTableMaximum ==
    (Scored /\ ~RoleInTitle) =>
        LET title  == TitleLower
            hits   == TableHits(title)
            misses == InOrder(DOMAIN title_keywords \ hits)
            best   == IF hits = {} THEN 0
                      ELSE Largest({ title_keywords[i].score : i \in hits })
        IN  /\ result.base_score = best
            /\ TitleLoop(ReverseOrder, title, 0) = best
            /\ \A order \in OrdersOf(hits) :
                   TitleLoop(order \o misses, title, 0) = best

\* "Junior Data Analyst": the phrase of that name scores 100 and comes before
\* "data analyst", which scores 95 and occurs in the title too
TitleTableMaximumWitness ==
    /\ Scored
    /\ ~RoleInTitle
    /\ result.title = "Junior Data Analyst"
    /\ { title_keywords[i].score : i \in TableHits(TitleLower) } = {100, 95}
    /\ result.base_score = 100

\* the two bonuses of a title
BonusesOf(title) ==
    (IF Contains("junior", title) THEN 10 ELSE 0)
        + (IF Contains("analyst", title) THEN 5 ELSE 0)

\* C19 (title bonuses): the final title_score is the smaller of 100 and the
\* base (the result of the target roles and the table) plus 10 if "junior"
\* occurs in the lower-cased title plus 5 if "analyst" does; a title in
\* which no target role and no table phrase occurs has base 0, and its
\* title_score is 0, 5, 10 or 15, the bonuses alone.
TitleBonuses ==
    Scored =>
        LET title == TitleLower
            sum   == result.base_score + BonusesOf(title)
        IN  /\ result.title_score = IF sum > 100 THEN 100 ELSE sum
            /\ (~RoleInTitle /\ TableHits(title) = {}) =>
                   /\ result.base_score = 0
                   /\ result.title_score = BonusesOf(title)
                   /\ result.title_score \in {0, 5, 10, 15}

\* "Junior Analyst" has no table phrase in it: base 0 and title_score 15
TitleBonusesWitness ==
    /\ Scored
    /\ ~RoleInTitle
    /\ result.title = "Junior Analyst"
    /\ TableHits(TitleLower) = {}
    /\ result.base_score = 0
    /\ result.title_score = 15

\* the configured exclusion keywords, lower-cased, in configured order
KeywordsInOrder ==
    LET configured == Get(config, "exclusion_keywords", <<>>)
    IN  [i \in DOMAIN configured |-> Lower(configured[i])]

\* C20 (exclusion check order): should_exclude returns (True, k) where k is
\* the first keyword, in configured order, that occurs in the lower-cased
\* text made of title and description, and (False, None) exactly when no
\* keyword occurs in it; the reason calculate_score reports names that same
\* keyword.
ExclusionOrder ==
    result.called =>
        LET text == PostingText
            hits == { i \in DOMAIN KeywordsInOrder :
                        Contains(KeywordsInOrder[i], text) }
        IN  /\ (result.exclusion = [excluded |-> FALSE, keyword |-> None])
                   <=> (hits = {})
            /\ \A i \in hits :
                   (\A j \in hits : i <= j) =>
                       /\ result.exclusion =
                              [excluded |-> TRUE, keyword |-> KeywordsInOrder[i]]
                       /\ result.decision = "exclude"
                       /\ result.reason = "Contains: " \o KeywordsInOrder[i]

\* a posting with "senior" in the title and "customer service" in the
\* description: both are configured, "senior" first, and it is the one named
ExclusionOrderWitness ==
    /\ result.called
    /\ Contains("senior", PostingText)
    /\ Contains("customer service", PostingText)
    /\ KeywordsInOrder = <<"senior", "customer service">>
    /\ result.exclusion = [excluded |-> TRUE, keyword |-> "senior"]
    /\ result.reason = "Contains: senior"

\* the tuple calculate_score returns for a posting evaluated alone by an
\* engine just built from the configuration
Alone(job_title, job_description) ==
    LET r == calculate_score(JobMatcher(config), job_title, job_description)
    IN  [score |-> r.score, matched_skills |-> r.matched_skills,
         decision |-> r.decision, reason |-> r.reason]

\* C11 (statelessness and safe sharing): the calls never change the profile
\* the engine was built with (skills, target roles, exclusions, thresholds),
\* and whatever the callers evaluated before or are evaluating at the same
\* time, in any interleaving, every call returns what the evaluation of its
\* posting alone returns.
SharedEngine ==
    matcher.constructed =>
        /\ matcher = JobMatcher(config)
        /\ \A c \in DOMAIN calls :
               calls[c].pc = "returned" =>
                   calls[c].returned =
                       Alone(calls[c].job_title, calls[c].job_description)

\* the second call of one caller returns auto_apply for the first posting of
\* run_test while the other caller is in the middle of another posting
SharedEngineWitness ==
    /\ DOMAIN calls = Callers
    /\ calls["t1"].pc = "returned"
    /\ calls["t1"].done = 1
    /\ calls["t1"].job_title = JuniorTitle
    /\ calls["t1"].returned.decision = "auto_apply"
    /\ calls["t2"].pc = "recommend"
    /\ calls["t2"].job_title = MisTitle

\* a total raised by 5 and capped at 100
RaisedBy5(total) == IF total + 5 > 100 THEN 100 ELSE total + 5

\* C21 (experience bonus): after weighting, the total is raised by exactly 5,
\* capped at 100, when "junior" occurs in the lower-cased title or "entry" in
\* the lower-cased description: once when both occur, not at all when
\* neither does, "entry" in the title alone not counting; the title's own
\* "junior" bonus of 10 is given as well.
ExperienceLevelBonus ==
    Scored =>
        LET junior == Contains("junior", TitleLower)
            entry  == Contains("entry", Lower(result.description))
        IN  /\ (junior \/ entry) => result.experienced = RaisedBy5(result.weighted)
            /\ ~(junior \/ entry) => result.experienced = result.weighted
            /\ junior => result.title_score =
                             IF result.base_score + BonusesOf(TitleLower) > 100
                             THEN 100 ELSE result.base_score + BonusesOf(TitleLower)

\* "junior" in the title and "entry" in the description: 5 is added, not 10,
\* next to the title bonus
ExperienceLevelBonusWitness ==
    /\ Scored
    /\ result.title = "Junior"
    /\ result.description = "entry level"
    /\ result.title_score = 10
    /\ result.weighted < 90
    /\ result.experienced = result.weighted + 5

\* C22 (tool diversity bonus): after weighting and the experience bonus, the
\* total is raised by 5, capped at 100, if and only if 3 or more of sql,
\* python, r, tableau, power bi and excel are among the matched skills;
\* group names and other skills do not count.
ToolDiversityBonus ==
    Scored =>
        LET tools == { s \in result.matched_skills :
                         s \in {"sql", "python", "r", "tableau", "power bi", "excel"} }
        IN  /\ Cardinality(tools) >= 3 => result.score = RaisedBy5(result.experienced)
            /\ Cardinality(tools) < 3 => result.score = result.experienced

\* four matched entries of which two are tools: no bonus
ToolDiversityBonusWitness ==
    /\ Scored
    /\ Cardinality(result.matched_skills) >= 4
    /\ "core_data" \in result.matched_skills
    /\ Cardinality(result.matched_skills \cap
                       {"sql", "python", "r", "tableau", "power bi", "excel"}) = 2
    /\ result.score = result.experienced

\* C24 (minimum non-excluded score): an evaluation that is not excluded has
\* skill_score in 50..100, title_score in 0..100 and a total of 25 or
\* more; the score is 0 if and only if the decision is exclude; and with a
\* review_threshold of 25 or less configured, skip is never the decision.
MinimumScore ==
    result.called =>
        /\ Scored => /\ result.skill_score \in 50..100
                     /\ result.title_score \in 0..100
                     /\ result.score >= 25
        /\ (result.score = 0) <=> (result.decision = "exclude")
        /\ LET matching == Get(config, "matching", <<>>)
           IN  ("review_threshold" \in DOMAIN matching
                    /\ matching["review_threshold"] <= 25) =>
                   result.decision # "skip"

\* the empty posting scored 25 with nothing matched, and sent to review by
\* a review_threshold of 25
MinimumScoreWitness ==
    /\ Scored
    /\ result.matched_skills = {}
    /\ result.title_score = 0
    /\ result.skill_score = 50
    /\ result.score = 25
    /\ Get(Get(config, "matching", <<>>), "review_threshold", 60) = 25
    /\ result.decision = "review"

(***************************************************************************)
(* Properties of _process_job and of the runs (SpecRun)                    *)
(***************************************************************************)

\* how often x occurs in seq
Times(seq, x) == Cardinality({ i \in DOMAIN seq : seq[i] = x })

\* the positions of x in seq
Positions(seq, x) == { i \in DOMAIN seq : seq[i] = x }

\* C28: every posting routed auto_apply raises stats['applied'] by exactly
\* one and sends exactly one application notification, whatever the
\* auto_apply flag, the platform and the LinkedIn scraper are, and
\* _process_job completes normally.
AutoApplyAccounting ==
    (last_call.called /\ last_call.outcome = "auto_apply") =>
        /\ ~last_call.raised
        /\ last_call.after.applied = last_call.before.applied + 1
        /\ Times(last_call.effects, "notify_application") = 1

\* C26: after any sequence of _process_job calls scanned equals applied
\* plus skipped: every call raises scanned by one and exactly one of
\* applied (auto_apply) and skipped (already applied, exclude, review,
\* skip) by one, and no counter decreases.
CounterAccounting ==
    /\ automation.stats.scanned =
           automation.stats.applied + automation.stats.skipped
    /\ last_call.called =>
           /\ last_call.after.scanned = last_call.before.scanned + 1
           /\ last_call.after.applied = last_call.before.applied +
                  (IF last_call.outcome = "auto_apply" THEN 1 ELSE 0)
           /\ last_call.after.skipped = last_call.before.skipped +
                  (IF last_call.outcome = "auto_apply" THEN 0 ELSE 1)
           /\ last_call.after.errors >= last_call.before.errors
           /\ last_call.after.email_jobs_parsed >= last_call.before.email_jobs_parsed

\* C29: notify_high_match is sent for a posting if and only if its decision
\* is auto_apply and its score is at least 85, and it is sent after the
\* sheet log and the application notification of that posting; a posting
\* with a score of at least 85 that is routed review gets none.
HighMatchNotification ==
    last_call.called =>
        /\ Times(last_call.effects, "notify_high_match") =
               (IF last_call.outcome = "auto_apply" /\ last_call.score >= 85
                THEN 1 ELSE 0)
        /\ \A h \in Positions(last_call.effects, "notify_high_match") :
               /\ \E l \in Positions(last_call.effects, "log_application") : l < h
               /\ \E n \in Positions(last_call.effects, "notify_application") : n < h

\* C27: while the sheet is connected and logging succeeds, a posting whose
\* URL is in the sheet is skipped before scoring (no score, no log, no
\* notification, counted as skipped), so no URL is logged to the sheet more
\* than once, for postings logged as auto_apply and as review alike; when
\* the sheet is not connected every posting is scored.
NoDuplicateApplications ==
    /\ \A i, j \in DOMAIN sheet.rows :
           sheet.rows[i][4] = sheet.rows[j][4] => i = j
    /\ last_call.called =>
           /\ (/\ last_call.connected
               /\ last_call.env.append = "ok"
               /\ \E i \in DOMAIN last_call.rows_before :
                      last_call.rows_before[i][4] = last_call.job.url)
              => /\ last_call.outcome = "already_applied"
                 /\ last_call.score = NoScore
                 /\ last_call.effects = <<>>
                 /\ last_call.rows_after = last_call.rows_before
                 /\ last_call.after.skipped = last_call.before.skipped + 1
           /\ ~last_call.connected => last_call.outcome # "already_applied"

\* what calculate_score returns to its caller of the locals kept in a result
Verdict(r) == <<r.score, r.matched_skills, r.decision>>

\* C23: a posting with no description is evaluated as the posting with its
\* title as description: same score, same matched skills, same decision.
DescriptionFallback ==
    (/\ last_call.called
     /\ last_call.outcome # "already_applied"
     /\ "description" \notin DOMAIN last_call.job)
    => <<last_call.score, last_call.matched_skills, last_call.outcome>> =
           Verdict(calculate_score(matcher, last_call.job.title,
                                   last_call.job.title))

\* a posting with no description and "entry" in its title is scored: the
\* title taken as description brings the experience-level raise, which an
\* empty description would not
DescriptionFallbackWitness ==
    /\ last_call.called
    /\ "description" \notin DOMAIN last_call.job
    /\ last_call.job.title = EntryTitle
    /\ last_call.outcome \in {"auto_apply", "review", "skip"}
    /\ last_call.score =
           calculate_score(matcher, EntryTitle, "").score + 5

\* C25: in _process_job a cover letter is generated and an application
\* notification is sent only for postings routed auto_apply;
\* log_application is called only for postings routed auto_apply or review,
\* once for each; postings routed exclude or skip cause no sheet log, no
\* cover letter and no notification and change the scanned and skipped
\* counters only.
SideEffectsFollowDecision ==
    last_call.called =>
        /\ Times(last_call.effects, "cover_letter") > 0
               => last_call.outcome = "auto_apply"
        /\ Times(last_call.effects, "notify_application") > 0
               => last_call.outcome = "auto_apply"
        /\ Times(last_call.effects, "log_application") =
               (IF last_call.outcome \in {"auto_apply", "review"} THEN 1 ELSE 0)
        /\ last_call.outcome \in {"exclude", "skip"} =>
               /\ last_call.effects = <<>>
               /\ last_call.rows_after = last_call.rows_before
               /\ last_call.after =
                      [last_call.before EXCEPT !.scanned = @ + 1,
                                               !.skipped = @ + 1]

\* with the sheet connected, a posting was applied to and logged, and the
\* next one is routed skip and leaves the sheet as it is
SideEffectsFollowDecisionWitness ==
    /\ last_call.called
    /\ last_call.connected
    /\ last_call.env.append = "ok"
    /\ last_call.outcome = "skip"
    /\ last_call.before.applied = 1
    /\ Len(last_call.rows_before) > 0
    /\ last_call.effects = <<>>
    /\ sheet.rows = last_call.rows_before

\* a run of run_naukri, run_linkedin or run_email_parser is under way
Running ==
    /\ automation.mode \in {"naukri", "linkedin", "email"}
    /\ automation.pc \in {"setup", "loop", "except", "finally"}

\* such a run has ended
Ended ==
    /\ automation.mode \in {"naukri", "linkedin", "email"}
    /\ automation.pc = "done"

\* the run ended with the summary printed and one summary notification sent
\* after all processing, one error notification for every error counted,
\* and no scraper left open
EndedInOrder ==
    Ended =>
        /\ Len(trace) >= 2
        /\ trace[Len(trace) - 1] = "print_summary"
        /\ trace[Len(trace)] = "notify_summary"
        /\ Times(trace, "print_summary") = 1
        /\ Times(trace, "notify_summary") = 1
        /\ \A i \in Positions(trace, "process_job") : i < Len(trace) - 1
        /\ Times(trace, "notify_error") = automation.stats.errors
        /\ automation.scraper # "open"
        /\ automation.linkedin_scraper # "open"
        /\ Times(trace, "close") =
               (IF automation.scraper = None /\ automation.linkedin_scraper = None
                THEN 0 ELSE 1)

\* an exception is handled once: one error counted, one error notification,
\* then the finally clause
HandledOnce ==
    automation.pc = "except" =>
        /\ automation'.pc = "finally"
        /\ automation'.stats.errors = automation.stats.errors + 1
        /\ Times(trace', "notify_error") = Times(trace, "notify_error") + 1

\* after an exception no posting is processed
ProcessingStops ==
    (Running /\ automation.pc \in {"except", "finally"}) =>
        /\ automation'.pc # "loop"
        /\ last_call' = last_call
        /\ Times(trace', "process_job") = Times(trace, "process_job")

\* C30: every run of run_naukri, run_linkedin and run_email_parser ends by
\* printing the summary and sending exactly one summary notification after
\* all processing of postings, whether it finished normally, returned early
\* or raised; an exception raises stats['errors'] by exactly one, sends one
\* error notification and stops the processing of the remaining postings,
\* and an opened scraper is always closed.
RunCompletion ==
    /\ [](Running => <>Ended)
    /\ []EndedInOrder
    /\ [](last_call.called /\ last_call.raised => automation.pc # "loop")
    /\ [][HandledOnce /\ ProcessingStops]_vars

\* a LinkedIn run that raised while processing a posting has ended: one
\* error is counted and the scraper is closed
RunCompletionWitness ==
    /\ Ended
    /\ automation.mode = "linkedin"
    /\ last_call.called
    /\ last_call.raised
    /\ automation.stats.errors = 1
    /\ automation.linkedin_scraper = "closed"
    /\ Times(trace, "notify_summary") = 1

====
